---- MODULE Spec2Model ----
(***************************************************************************)
(* The /api/debate endpoint of the debate practice server: the moderation  *)
(* gate with its per-student strike table, the model-output parser and the *)
(* score shaping, in the three revisions that keep a strike table          *)
(*   "current" : src/server.js lines 248-520                               *)
(*   "rev2"    : src/server.js lines 750-1003                              *)
(*   "part000" : src/unnamed/part_000 lines 86-272                         *)
(* and the debate page that calls it, in two revisions                     *)
(*   "sidepicker" : src/unnamed/part_002 lines 1-431                       *)
(*   "public"     : src/public/script.js lines 309-518                     *)
(*                                                                         *)
(* JavaScript numbers are modelled in fixed point (ONE units = 1.0) plus   *)
(* the value NaN; every input is drawn from a grid on which the code's     *)
(* multiplications are exact in this representation.                       *)
(***************************************************************************)
EXTENDS Integers, Sequences, FiniteSets, Bags, TLC

\* ------------------------------------------------------------------------
\* Bounds of the model
\* ------------------------------------------------------------------------
MaxStrikes == 4      \* the strike counter is not driven beyond this value
MaxRound == 6        \* request rounds are 1..MaxRound
NSlots == 2          \* request handlers that may be in flight at once
MaxPlain == 9        \* most words in a message
MaxText == 3         \* most characters in a model output text
MaxTurns == 3        \* turns a page sends
MaxSessions == 1     \* side choices (session starts) of a page
MaxPending == 2      \* submit handlers of a page that may be suspended at once

\* ------------------------------------------------------------------------
\* JavaScript numbers
\* ------------------------------------------------------------------------
ONE == 10 ^ 8
Num(x) == [nan |-> FALSE, v |-> x]
NaN == [nan |-> TRUE, v |-> 0]
\* the decimal literal p/10000, e.g. D(5200) is 0.52
D(p) == Num(p * (ONE \div 10000))

jsAdd(a, b) == IF a.nan \/ b.nan THEN NaN ELSE Num(a.v + b.v)
jsSub(a, b) == IF a.nan \/ b.nan THEN NaN ELSE Num(a.v - b.v)
\* a * (n/d) for a literal n/d, computed without overflow
jsScale(a, n, d) ==
  IF a.nan THEN NaN ELSE Num((a.v \div d) * n + ((a.v % d) * n) \div d)
jsMin(a, b) == IF a.nan \/ b.nan THEN NaN ELSE IF a.v <= b.v THEN a ELSE b
jsMax(a, b) == IF a.nan \/ b.nan THEN NaN ELSE IF a.v >= b.v THEN a ELSE b
jsLt(a, b) == ~a.nan /\ ~b.nan /\ a.v < b.v
jsGt(a, b) == ~a.nan /\ ~b.nan /\ a.v > b.v
jsLe(a, b) == ~a.nan /\ ~b.nan /\ a.v <= b.v
jsGe(a, b) == ~a.nan /\ ~b.nan /\ a.v >= b.v
\* Math.round(x * 100): floor(100 x + 1/2), an integer (unit 1), or NaN
jsRound100(a) ==
  IF a.nan THEN NaN ELSE Num((a.v + ONE \div 200) \div (ONE \div 100))

clamp01(x) == jsMax(D(0), jsMin(D(10000), x))
\* mix(a, b, t) with the literal t = tn/td
mix(a, b, tn, td) == jsAdd(jsScale(a, td - tn, td), jsScale(b, tn, td))

\* ------------------------------------------------------------------------
\* JSON values of the model's output object
\* ------------------------------------------------------------------------
JAbsent == [t |-> "absent", n |-> 0, s |-> ""]
JNull == [t |-> "null", n |-> 0, s |-> ""]
JNum(p) == [t |-> "num", n |-> p * (ONE \div 10000), s |-> ""]
JStr(str) == [t |-> "str", n |-> 0, s |-> str]

\* x ?? d
Coalesce(x, d) == IF x.t \in {"absent", "null"} THEN d ELSE x
\* truthiness of x
Truthy(x) == \/ x.t = "num" /\ x.n # 0
             \/ x.t = "str" /\ x.s # ""
\* x || d
OrElse(x, d) == IF Truthy(x) THEN x ELSE d
\* Number(x); the strings of the model are not numeric literals
Number(x) ==
  CASE x.t = "num" -> Num(x.n)
    [] x.t = "null" -> Num(0)
    [] x.t = "str" -> IF x.s = "" THEN Num(0) ELSE NaN
    [] OTHER -> NaN
\* s.toLowerCase() on the stance vocabulary
toLowerCase(str) ==
  CASE str = "Agree" -> "agree"
    [] str = "DISAGREE" -> "disagree"
    [] OTHER -> str

\* ------------------------------------------------------------------------
\* Messages and requests
\* ------------------------------------------------------------------------
\* A message is a bag of words over a small vocabulary:
\*   porn   - a word of HARD_BAN (both revisions of it) and of badRegex
\*   shit   - a word of LANGUAGE_BAN and of badRegex, not of HARD_BAN
\*   kw     - a keyword of the known topic (it is not a school-context word)
\*   school - a word of SCHOOL_CONTEXT_REGEX
\*   plain  - any other word
\* ws tells whether it contains white space; the empty string has no words
\* and no white space.
Msg(po, sh, k, sc, pl, w) ==
  [porn |-> po, shit |-> sh, kw |-> k, school |-> sc, plain |-> pl, ws |-> w]
EmptyMessage == Msg(0, 0, 0, 0, 0, FALSE)
BlankMessage == Msg(0, 0, 0, 0, 0, TRUE)

\* (mutant) the input check is left out
NonEmptyMutant(m) == TRUE
\* !message is false exactly for the non-empty strings
NonEmpty(m) == m.porn + m.shit + m.kw + m.school + m.plain > 0 \/ m.ws
\* (mutant) the words that are topic keywords are not counted
wordCountMutant(m) == m.porn + m.shit + m.school + m.plain
wordCount(m) == m.porn + m.shit + m.kw + m.school + m.plain
\* message.trim().length > 0
saidAnything(m) == wordCount(m) > 0

KnownTopic == "Zoos are helpful for animals"
\* a topic that is no key of TOPIC_KEYWORDS; "" stands for null, absent and ""
UnknownTopic == "Cats are better than dogs"
\* TOPIC_KEYWORDS[topic] || [] searched in the lower-cased message
keywordMatch(topic, m) == topic = KnownTopic /\ m.kw > 0
SCHOOL_CONTEXT_REGEX(m) == m.school > 0
\* if (topic && !keywordMatch(topic, message)) hint = ...; the hint is set
HintFor(topic, m) == topic # "" /\ ~keywordMatch(topic, m)

\* the ban lists of the three revisions
HARD_BAN(m) == m.porn > 0
LANGUAGE_BAN(m) == m.shit > 0
badRegex(m) == m.porn > 0 \/ m.shit > 0

\* studentInfo is an object (a pair of firstName and lastInitial, "" when
\* falsy or missing) or null: the default {} replaces undefined only
NullInfo == <<>>
\* reading studentInfo.firstName of null throws a TypeError
InfoThrows(info) == info = NullInfo
\* studentKey: `${firstName || "unknown"}_${lastInitial || ""}`
studentKey(info) == <<IF info[1] = "" THEN "unknown" ELSE info[1], info[2]>>

\* the strike table is a Map: absent keys read as undefined
\* (mutant) a stale read: the count as it was when the table was empty
MapGetMutant(m, k) == 0
MapGet(m, k) == IF k \in DOMAIN m THEN m[k] ELSE 0
\* (mutant) set writes the value to every entry of the table
MapSetMutant(m, k, val) == [x \in (DOMAIN m) \cup {k} |-> val]
MapSet(m, k, val) == [x \in (DOMAIN m) \cup {k} |-> IF x = k THEN val ELSE m[x]]

\* ------------------------------------------------------------------------
\* Parsing the model's output text
\* ------------------------------------------------------------------------
\* The text is a string over: "{", "}", "x" (any other character) and "m"
\* (a well-formed list of members, whose values are the record `fields`).
indexOf(text, c) ==
  IF \E i \in 1..Len(text) : text[i] = c
  THEN (CHOOSE i \in 1..Len(text) :
          text[i] = c /\ \A j \in 1..(i - 1) : text[j] # c) - 1
  ELSE -1
lastIndexOf(text, c) ==
  IF \E i \in 1..Len(text) : text[i] = c
  THEN (CHOOSE i \in 1..Len(text) :
          text[i] = c /\ \A j \in (i + 1)..Len(text) : text[j] # c) - 1
  ELSE -1
\* text.slice(from, to) with JavaScript's treatment of negative indices
slice(text, from, to) ==
  LET n == Len(text)
      lo == IF from < 0 THEN (IF n + from < 0 THEN 0 ELSE n + from)
            ELSE (IF from > n THEN n ELSE from)
      hi == IF to < 0 THEN (IF n + to < 0 THEN 0 ELSE n + to)
            ELSE (IF to > n THEN n ELSE to)
  IN IF lo >= hi THEN <<>> ELSE SubSeq(text, lo + 1, hi)
\* JSON.parse succeeds on "{}" and on "{" members "}"
JSONValid(sub) == sub = <<"{", "}">> \/ sub = <<"{", "m", "}">>
NoFields ==
  [reply |-> JAbsent, stance |-> JAbsent, outcome |-> JAbsent,
   score |-> JAbsent, concession |-> JAbsent, student_strength |-> JAbsent]
JSONParse(sub, fields) == IF sub = <<"{", "m", "}">> THEN fields ELSE NoFields

\* profile.bias of the revision and difficulty (profiles[difficulty] ||
\* profiles.Normal), in 1/10000
bias(rev, difficulty) ==
  IF rev = "part000"
  THEN CASE difficulty = "Beginner" -> 2000
         [] difficulty = "Intermediate" -> 3000
         [] difficulty = "Hard" -> 6500
         [] difficulty = "Extreme" -> 8000
         [] OTHER -> 5000
  ELSE CASE difficulty = "Beginner" -> 1800
         [] difficulty = "Intermediate" -> 4000
         [] difficulty = "Hard" -> 6500
         [] difficulty = "Extreme" -> 7000
         [] OTHER -> 4800

\* (mutant) a fallback object without usable numbers
FallbackMutant(rev, difficulty) ==
  [reply |-> JStr("fallback"), stance |-> JStr("mixed"),
   outcome |-> JStr("mixed"), score |-> JNum(bias(rev, difficulty)),
   concession |-> JStr("none"), student_strength |-> JAbsent]
\* the catch branch: the fallback object
Fallback(rev, difficulty) ==
  [reply |-> JStr("fallback"), stance |-> JStr("mixed"),
   outcome |-> JStr("mixed"), score |-> JNum(bias(rev, difficulty)),
   concession |-> IF rev = "part000" THEN JAbsent ELSE JNum(0),
   student_strength |-> IF rev = "part000" THEN JAbsent ELSE JNum(5000)]

\* try { data = JSON.parse(out.slice(s, e + 1)) } catch { data = fallback }
ParseOutput(rev, difficulty, text, fields) ==
  LET s == indexOf(text, "{")
      e == lastIndexOf(text, "}")
      sub == slice(text, s, e + 1)
  IN IF JSONValid(sub)
     THEN [parsed |-> TRUE, data |-> JSONParse(sub, fields)]
     ELSE [parsed |-> FALSE, data |-> Fallback(rev, difficulty)]

\* ------------------------------------------------------------------------
\* Score shaping, revisions "current" and "rev2"
\* ------------------------------------------------------------------------
\* base = 0.5 shifted by stance and concession
stanceBase(stance, concession) ==
  IF stance = "agree"
  THEN jsSub(D(5000), jsScale(jsAdd(D(6000), jsScale(concession, 2, 5)), 3, 25))
  ELSE IF stance = "mixed"
  THEN jsSub(D(5000), jsScale(jsAdd(D(5000), jsScale(concession, 1, 2)), 3, 50))
  ELSE jsAdd(D(5000), jsScale(jsSub(D(10000), concession), 2, 25))

\* base += (0.5 - stuStrength) * 0.30
\* (mutant) the sign of the pull is reversed
strengthPullMutant(base, stuStrength) ==
  jsAdd(base, jsScale(jsSub(stuStrength, D(5000)), 3, 10))
strengthPull(base, stuStrength) ==
  jsAdd(base, jsScale(jsSub(D(5000), stuStrength), 3, 10))

\* the short-answer penalty of the current revision (rev2 has none)
\* (mutant) the shortest messages get the weaker pull too
lowEffortWeak(rev, base, difficulty, wc) ==
  IF rev = "current" /\ difficulty # "Beginner"
  THEN IF wc <= 8 THEN mix(base, D(6000), 7, 20) ELSE base
  ELSE base
\* (mutant) the weaker pull reaches one word further
lowEffortMutant(rev, base, difficulty, wc) ==
  IF rev = "current" /\ difficulty # "Beginner"
  THEN IF wc <= 4 THEN mix(base, D(6800), 11, 20)
       ELSE IF wc <= 9 THEN mix(base, D(6000), 7, 20)
       ELSE base
  ELSE base
lowEffort(rev, base, difficulty, wc) ==
  IF rev = "current" /\ difficulty # "Beginner"
  THEN IF wc <= 4 THEN mix(base, D(6800), 11, 20)
       ELSE IF wc <= 8 THEN mix(base, D(6000), 7, 20)
       ELSE base
  ELSE base

\* base += Math.random() * 0.02 - 0.01, for the draw u
jitter(base, u) == jsAdd(base, jsSub(jsScale(u, 1, 50), D(100)))

\* (mutant) the default branch of the switch leaves the score untilted
applyDifficultyTiltMutant(rev, baseScore, diff) ==
  CASE diff = "Beginner" -> clamp01(baseScore)
    [] diff = "Intermediate" ->
         clamp01(mix(baseScore, IF rev = "current" THEN D(4000) ELSE D(4800), 2, 25))
    [] diff = "Normal" -> clamp01(mix(baseScore, D(5000), 1, 20))
    [] diff = "Hard" ->
         clamp01(mix(baseScore, IF rev = "current" THEN D(6000) ELSE D(5800), 3, 25))
    [] diff = "Extreme" ->
         clamp01(mix(baseScore, IF rev = "current" THEN D(7500) ELSE D(7200), 7, 20))
    [] OTHER -> clamp01(baseScore)
applyDifficultyTilt(rev, baseScore, diff) ==
  IF rev = "current"
  THEN CASE diff = "Beginner" -> clamp01(mix(baseScore, D(2500), 0, 1))
         [] diff = "Intermediate" -> clamp01(mix(baseScore, D(4000), 2, 25))
         [] diff = "Hard" -> clamp01(mix(baseScore, D(6000), 3, 25))
         [] diff = "Extreme" -> clamp01(mix(baseScore, D(7500), 7, 20))
         [] OTHER -> clamp01(mix(baseScore, D(5000), 1, 20))
  ELSE CASE diff = "Beginner" -> clamp01(mix(baseScore, D(4600), 0, 1))
         [] diff = "Intermediate" -> clamp01(mix(baseScore, D(4800), 2, 25))
         [] diff = "Hard" -> clamp01(mix(baseScore, D(5800), 3, 25))
         [] diff = "Extreme" -> clamp01(mix(baseScore, D(7200), 7, 20))
         [] OTHER -> clamp01(mix(baseScore, D(5000), 1, 20))

\* Guardrails; u2 is the second Math.random() draw
guardrails(score, difficulty, message, stuStrength, u2) ==
  IF difficulty = "Beginner"
  THEN IF saidAnything(message) THEN jsMin(score, D(3500)) ELSE score
  ELSE IF difficulty = "Extreme"
  THEN IF jsGe(stuStrength, D(7500)) /\ jsLt(u2, D(1000))
       THEN jsMin(score, D(4600)) ELSE score
  ELSE score

\* (mutant) a numeric score of the model is taken as the base
shapeScoreMutant(rev, data, difficulty, message, u1, u2) ==
  LET concession == clamp01(Number(Coalesce(data.concession, JNum(0))))
      stuStrength == clamp01(Number(Coalesce(data.student_strength, JNum(5000))))
      stance == toLowerCase(OrElse(data.stance, JStr("mixed")).s)
      b1 == IF data.score.t = "num" THEN clamp01(Num(data.score.n))
            ELSE stanceBase(stance, concession)
      b2 == strengthPull(b1, stuStrength)
      b3 == lowEffort(rev, b2, difficulty, wordCount(message))
      base == clamp01(jitter(b3, u1))
      tilted == applyDifficultyTilt(rev, base, difficulty)
  IN guardrails(tilted, difficulty, message, stuStrength, u2)
\* the final score of the turn
shapeScore(rev, data, difficulty, message, u1, u2) ==
  LET concession == clamp01(Number(Coalesce(data.concession, JNum(0))))
      stuStrength == clamp01(Number(Coalesce(data.student_strength, JNum(5000))))
      stance == toLowerCase(OrElse(data.stance, JStr("mixed")).s)
      b1 == stanceBase(stance, concession)
      b2 == strengthPull(b1, stuStrength)
      b3 == lowEffort(rev, b2, difficulty, wordCount(message))
      base == clamp01(jitter(b3, u1))
      tilted == applyDifficultyTilt(rev, base, difficulty)
  IN guardrails(tilted, difficulty, message, stuStrength, u2)

\* (data.stance || "mixed").toLowerCase() throws a TypeError when the
\* stance is a truthy value that is not a string
stanceThrows(data) == Truthy(data.stance) /\ data.stance.t # "str"

Outcome(score) ==
  IF jsGt(score, D(5200)) THEN "ai"
  ELSE IF jsLt(score, D(4800)) THEN "student"
  ELSE "mixed"

\* leader and label from the meter (an integer, unit 1)
\* (mutant) the leader is whoever is above or below the middle
LeaderMutant(meter) ==
  IF jsGt(meter, Num(50)) THEN "ai"
  ELSE IF jsLt(meter, Num(50)) THEN "student"
  ELSE "tied"
Leader(meter) ==
  IF jsGt(meter, Num(52)) THEN "ai"
  ELSE IF jsLt(meter, Num(48)) THEN "student"
  ELSE "tied"
Label(meter) ==
  IF Leader(meter) = "ai"
  THEN IF jsGe(meter, Num(80)) THEN "AI far ahead"
       ELSE IF jsGe(meter, Num(65)) THEN "AI clearly ahead"
       ELSE "AI slightly ahead"
  ELSE IF Leader(meter) = "student"
  THEN IF jsLe(meter, Num(20)) THEN "Student far ahead"
       ELSE IF jsLe(meter, Num(35)) THEN "Student clearly ahead"
       ELSE "Student slightly ahead"
  ELSE "Neck and neck"

\* (mutant) the round limits of the revisions swapped
RoundLimitMutant(rev) == IF rev = "part000" THEN 5 ELSE 3
\* data.nextRound > limit
RoundLimit(rev) == IF rev = "part000" THEN 3 ELSE 5

\* ------------------------------------------------------------------------
\* Score shaping, revision "part000"
\* ------------------------------------------------------------------------
\* mix(score, profile.bias, dampByDiff[difficulty] ?? 0.5)
damp(score, difficulty) ==
  LET b == D(bias("part000", difficulty))
  IN CASE difficulty = "Beginner" -> mix(score, b, 1, 4)
       [] difficulty = "Intermediate" -> mix(score, b, 7, 20)
       [] difficulty = "Hard" -> mix(score, b, 13, 20)
       [] difficulty = "Extreme" -> mix(score, b, 3, 4)
       [] OTHER -> mix(score, b, 1, 2)

\* (mutant) the caps of the two easy tiers are left out
guardrails000Mutant(score, difficulty) ==
  CASE difficulty = "Hard" -> jsMax(score, D(5500))
    [] difficulty = "Extreme" -> jsMax(score, D(7000))
    [] OTHER -> score
guardrails000(score, difficulty) ==
  CASE difficulty = "Beginner" -> clamp01(jsSub(jsMin(score, D(4200)), D(1000)))
    [] difficulty = "Intermediate" -> clamp01(jsSub(jsMin(score, D(4800)), D(500)))
    [] difficulty = "Hard" -> jsMax(score, D(5500))
    [] difficulty = "Extreme" -> jsMax(score, D(7000))
    [] OTHER -> score

\* score = clamp(score + (Math.random() * 0.04 - 0.02))
jitter000(score, u) == clamp01(jsAdd(score, jsSub(jsScale(u, 1, 25), D(200))))

shapeScore000(data, difficulty, u1) ==
  LET raw == IF data.score.t = "num" THEN clamp01(Num(data.score.n))
             ELSE D(bias("part000", difficulty))
  IN jitter000(guardrails000(damp(raw, difficulty), difficulty), u1)

\* the 60% student outcome of the two easy tiers; u2 is the second draw
easyWin(difficulty, u2) ==
  difficulty \in {"Beginner", "Intermediate"} /\ jsLt(u2, D(6000))

Outcome000(score, difficulty, u2) ==
  IF easyWin(difficulty, u2) THEN "student"
  ELSE IF jsGt(score, D(5300)) THEN "ai"
  ELSE IF jsLt(score, D(4700)) THEN "student"
  ELSE "mixed"

Leader000(meter) ==
  IF jsGt(meter, Num(53)) THEN "ai"
  ELSE IF jsLt(meter, Num(47)) THEN "student"
  ELSE "tied"
Label000(meter) ==
  IF Leader000(meter) = "ai"
  THEN IF jsGt(meter, Num(70)) THEN "AI far ahead"
       ELSE IF jsGt(meter, Num(60)) THEN "AI slightly ahead"
       ELSE "AI just ahead"
  ELSE IF Leader000(meter) = "student"
  THEN IF jsLt(meter, Num(30)) THEN "Student far ahead"
       ELSE IF jsLt(meter, Num(40)) THEN "Student slightly ahead"
       ELSE "Student just ahead"
  ELSE "Neck and neck"

\* ------------------------------------------------------------------------
\* Responses
\* ------------------------------------------------------------------------
\* A response is its HTTP status, the set of keys of its JSON body and the
\* values of the keys (a key that is not in `keys` has a filler value).
BlankResp ==
  [status |-> 200, keys |-> {}, error |-> "", violation |-> FALSE,
   category |-> "", endDebate |-> FALSE, allowRetry |-> FALSE,
   instructions |-> "", reply |-> JAbsent, stance |-> JAbsent,
   outcome |-> "", score |-> Num(0), concession |-> JAbsent,
   student_strength |-> JAbsent, round |-> 0, nextRound |-> 0,
   hud |-> [meter |-> Num(0), leader |-> "", label |-> "", difficulty |-> ""],
   hint |-> ""]

MissingMessage ==
  [BlankResp EXCEPT !.status = 400, !.keys = {"error"},
                    !.error = "Missing message"]
ServerError ==
  [BlankResp EXCEPT !.status = 500, !.keys = {"error"},
                    !.error = "Failed to get AI response."]
StopDebate ==
  [BlankResp EXCEPT
     !.keys = {"violation", "category", "endDebate", "allowRetry", "instructions"},
     !.violation = TRUE, !.category = "sensitive", !.endDebate = TRUE,
     !.allowRetry = FALSE, !.instructions = "stop"]
Warning(text) ==
  [BlankResp EXCEPT
     !.keys = {"violation", "category", "allowRetry", "instructions"},
     !.violation = TRUE, !.category = "sensitive",
     !.allowRetry = TRUE, !.instructions = text]
OffTopic ==
  [BlankResp EXCEPT
     !.keys = {"violation", "category", "allowRetry", "instructions"},
     !.violation = TRUE, !.category = "offtopic",
     !.allowRetry = TRUE, !.instructions = "stay on topic"]

\* the keys of the parsed object
DataKeys(data) ==
  {k \in {"reply", "stance", "outcome", "score", "concession", "student_strength"} :
     data[k].t # "absent"}

\* if (!data.reply) data.reply = default
ReplyOr(data) == IF Truthy(data.reply) THEN data.reply ELSE JStr("default")

\* res.json(data) of the revisions "current" and "rev2"
Scored(rev, req, data, hint, u1, u2) ==
  LET score == shapeScore(rev, data, req.difficulty, req.message, u1, u2)
      meter == jsRound100(score)
  IN [BlankResp EXCEPT
        !.keys = DataKeys(data) \cup
                 {"outcome", "score", "round", "nextRound", "endDebate",
                  "reply", "hud"} \cup (IF hint THEN {"hint"} ELSE {}),
        !.reply = ReplyOr(data), !.stance = data.stance,
        !.concession = data.concession,
        !.student_strength = data.student_strength,
        !.outcome = Outcome(score), !.score = score,
        !.round = req.round, !.nextRound = req.round + 1,
        !.endDebate = (req.round + 1 > RoundLimit(rev)),
        !.hud = [meter |-> meter, leader |-> Leader(meter),
                 label |-> Label(meter), difficulty |-> req.difficulty],
        !.hint = IF hint THEN "mention the topic" ELSE ""]

\* the praise appended to the reply of an easy win
Praise(data, difficulty, u2) ==
  IF easyWin(difficulty, u2) /\ Truthy(data.reply) /\ data.reply.s # "great reply"
  THEN JStr("praised reply") ELSE data.reply

\* res.json(data) of the revision "part000"
Scored000(req, data, u1, u2) ==
  LET score == shapeScore000(data, req.difficulty, u1)
      meter == jsRound100(score)
      praised == [data EXCEPT !.reply = Praise(data, req.difficulty, u2)]
  IN [BlankResp EXCEPT
        !.keys = DataKeys(data) \cup
                 {"outcome", "score", "round", "nextRound", "endDebate",
                  "reply", "hud"},
        !.reply = ReplyOr(praised), !.stance = data.stance,
        !.concession = data.concession,
        !.student_strength = data.student_strength,
        !.outcome = Outcome000(score, req.difficulty, u2), !.score = score,
        !.round = req.round, !.nextRound = req.round + 1,
        !.endDebate = (req.round + 1 > RoundLimit("part000")),
        !.hud = [meter |-> meter, leader |-> Leader000(meter),
                 label |-> Label000(meter), difficulty |-> req.difficulty]]

\* the answer to a turn whose model call has returned `data`: a TypeError
\* on the stance goes to catch (err)
Respond(r, req, data, hint, u1, u2) ==
  IF r = "part000" THEN Scored000(req, data, u1, u2)
  ELSE IF stanceThrows(data) THEN ServerError
  ELSE Scored(r, req, data, hint, u1, u2)

\* ------------------------------------------------------------------------
\* State
\* ------------------------------------------------------------------------
VARIABLES
  rev,              \* the revision of the server that is running
  sensitiveCounts,  \* the strike table (a Map from student key to count)
  inflight,         \* the bag of handlers suspended at an await
  sent,             \* the last response sent, with the request it answers
  streak,           \* history: per key, the violating messages the gate has
                    \* seen since the key's last clean message
  pattern,          \* history: how far the messages of the watched student
                    \* so far spell violation, clean, violation, violation
  client,           \* the debate page in the browser
  sessionStore      \* the session files of the server

vars == <<rev, sensitiveCounts, inflight, sent, streak, pattern, client,
          sessionStore>>

\* the page after DOMContentLoaded: the topic and side are those of the
\* settings in localStorage (a reload keeps the ones of an earlier visit).
\* History: `done` holds the choices made on this page, `logs` the number
\* of logTurn requests of each answered turn that is past its logTurn call,
\* `scored` the number of scored answers per round sent
Loaded(page, topic, side, confirmOff) ==
  [page |-> page,
   welcome |-> TRUE, topicPopup |-> FALSE, sidePopup |-> FALSE,
   confirmDisabled |-> confirmOff,
   inputDisabled |-> TRUE, submitDisabled |-> TRUE,
   locked |-> (page = "sidepicker"),
   selectedTopic |-> topic, side |-> side, input |-> EmptyMessage,
   currentRound |-> 1, shown |-> 1, finishedReady |-> FALSE,
   sessionId |-> 0, starts |-> 0, started |-> 0, turns |-> {}, count |-> 0,
   done |-> {}, logs |-> <<>>, scored |-> <<>>]
NotLoaded == [page |-> "none"]
NoSessions == [created |-> 0, starting |-> 0, turns |-> <<>>]

Revs == {"current", "rev2", "part000"}
StudentInfos == {<<"", "">>, <<"Ann", "B">>}
AllKeys == {studentKey(i) : i \in StudentInfos}

\* (mutant) the count is compared with > instead of >=
ThresholdMutant(r) == IF r = "current" THEN 4 ELSE 3
Threshold(r) == IF r = "current" THEN 3 ELSE 2

\* the message matches a ban list of the revision (part000 also asks the
\* moderation service, see ModerationReturns)
Violates(r, m) ==
  CASE r = "current" -> HARD_BAN(m) \/ LANGUAGE_BAN(m)
    [] r = "rev2" -> HARD_BAN(m)
    [] OTHER -> badRegex(m)

WarningText(r, m) ==
  IF r = "current"
  THEN (IF HARD_BAN(m) THEN "avoid explicit content" ELSE "avoid curse words")
  ELSE "avoid this content"

\* the pattern after one more message of the watched key: the messages so
\* far while they are a prefix of V C V V ("" before the first), "off" once
\* they are not; the messages of other keys leave it alone
Watched == studentKey(<<"Ann", "B">>)
Advance(key, violating) ==
  IF key # Watched THEN pattern
  ELSE CASE pattern = "" /\ violating -> "V"
         [] pattern = "V" /\ ~violating -> "VC"
         [] pattern = "VC" /\ violating -> "VCV"
         [] pattern = "VCV" /\ violating -> "VCVV"
         [] OTHER -> "off"
\* the position in the pattern of a message of the key that has just been
\* gated ("off" when the key is not the watched one)
Position(key, violating) ==
  IF key = Watched THEN Advance(key, violating) ELSE "off"

NoOut ==
  [text |-> <<>>, parsed |-> FALSE, data |-> NoFields,
   u1 |-> Num(0), u2 |-> Num(0)]
NoRequest ==
  [info |-> <<"", "">>, message |-> EmptyMessage, difficulty |-> "",
   round |-> 0, topic |-> ""]

\* the record kept of a response: the request, the response, and what the
\* handler did on the way (history): whether it changed the strike table,
\* the position of its message in the key's streak and pattern, the
\* external calls it made, whether the model call failed, the model output
Sent(req, resp, mutated, nth, pat, calls, failed, out) ==
  [any |-> TRUE, req |-> req, resp |-> resp, mutated |-> mutated, nth |-> nth,
   pat |-> pat, calls |-> calls, failed |-> failed, out |-> out]
NothingSent ==
  [any |-> FALSE, req |-> NoRequest, resp |-> BlankResp, mutated |-> FALSE,
   nth |-> 0, pat |-> "off", calls |-> {}, failed |-> FALSE, out |-> NoOut]

Handler(pc, req, mutated, hint, pat, calls) ==
  [pc |-> pc, req |-> req, mutated |-> mutated, hint |-> hint, pat |-> pat,
   calls |-> calls]
Handlers == BagToSet(inflight)
Suspend(h) == inflight (+) SetToBag({h})
Resume(h) == inflight (-) SetToBag({h})

\* (mutant) only the strike that reaches the threshold ends the debate
StrikeOnce(req, key, cur, calls) ==
  /\ cur < MaxStrikes
  /\ sensitiveCounts' = MapSet(sensitiveCounts, key, cur + 1)
  /\ streak' = [streak EXCEPT ![key] = @ + 1]
  /\ pattern' = Advance(key, TRUE)
  /\ sent' = Sent(req,
                  IF cur + 1 = Threshold(rev) THEN StopDebate
                  ELSE Warning(WarningText(rev, req.message)),
                  sensitiveCounts' # sensitiveCounts,
                  streak[key] + 1, Position(key, TRUE),
                  calls, FALSE, NoOut)
\* the strike bookkeeping of a flagged message: count it and answer
Strike(req, key, cur, calls) ==
  /\ cur < MaxStrikes
  /\ sensitiveCounts' = MapSet(sensitiveCounts, key, cur + 1)
  /\ streak' = [streak EXCEPT ![key] = @ + 1]
  /\ pattern' = Advance(key, TRUE)
  /\ sent' = Sent(req,
                  IF cur + 1 >= Threshold(rev) THEN StopDebate
                  ELSE Warning(WarningText(rev, req.message)),
                  sensitiveCounts' # sensitiveCounts,
                  streak[key] + 1, Position(key, TRUE),
                  calls, FALSE, NoOut)

\* (mutant) a clean message leaves the strikes alone
ResetOnCleanMutant(key, cur) ==
  /\ sensitiveCounts' = sensitiveCounts
  /\ streak' = [streak EXCEPT ![key] = 0]
  /\ pattern' = Advance(key, FALSE)
\* (mutant) a clean message clears the strikes only from the second one on
ResetOnCleanLate(key, cur) ==
  /\ sensitiveCounts' = IF cur > 1 THEN MapSet(sensitiveCounts, key, 0)
                        ELSE sensitiveCounts
  /\ streak' = [streak EXCEPT ![key] = 0]
  /\ pattern' = Advance(key, FALSE)
\* a clean message clears the strikes of the key
ResetOnClean(key, cur) ==
  /\ sensitiveCounts' = IF cur # 0 THEN MapSet(sensitiveCounts, key, 0)
                        ELSE sensitiveCounts
  /\ streak' = [streak EXCEPT ![key] = 0]
  /\ pattern' = Advance(key, FALSE)

Init ==
  /\ rev \in Revs
  /\ sensitiveCounts = [k \in {} |-> 0]
  /\ inflight = EmptyBag
  /\ sent = NothingSent
  /\ streak = [k \in AllKeys |-> 0]
  /\ pattern = ""
  /\ client = NotLoaded
  /\ sessionStore = NoSessions

\* ------------------------------------------------------------------------
\* app.post('/api/debate') up to its first await, revisions current and rev2
\* ------------------------------------------------------------------------
Receive(req) ==
  /\ UNCHANGED <<client, sessionStore>>
  /\ rev \in {"current", "rev2"}
  /\ UNCHANGED rev
  /\ LET key == studentKey(req.info)
         cur == MapGet(sensitiveCounts, key)
     IN IF ~NonEmpty(req.message)
        THEN /\ sent' = Sent(req, MissingMessage, FALSE, 0, "off", {}, FALSE, NoOut)
             /\ UNCHANGED <<sensitiveCounts, inflight, streak, pattern>>
        ELSE IF InfoThrows(req.info)
        THEN /\ sent' = Sent(req, ServerError, FALSE, 0, "off", {}, FALSE, NoOut)
             /\ UNCHANGED <<sensitiveCounts, inflight, streak, pattern>>
        ELSE IF Violates(rev, req.message)
        THEN /\ Strike(req, key, cur, {})
             /\ UNCHANGED inflight
        ELSE /\ BagCardinality(inflight) < NSlots
             /\ ResetOnClean(key, cur)
             /\ inflight' = Suspend(Handler("model", req,
                                sensitiveCounts' # sensitiveCounts,
                                HintFor(req.topic, req.message),
                                Position(key, FALSE), {"model"}))
             /\ UNCHANGED sent

\* ------------------------------------------------------------------------
\* app.post('/api/debate') of part000: up to the moderation call
\* ------------------------------------------------------------------------
Receive000(req) ==
  /\ UNCHANGED <<client, sessionStore>>
  /\ rev = "part000"
  /\ UNCHANGED <<rev, sensitiveCounts, streak, pattern>>
  /\ IF ~NonEmpty(req.message)
     THEN /\ sent' = Sent(req, MissingMessage, FALSE, 0, "off", {}, FALSE, NoOut)
          /\ UNCHANGED inflight
     ELSE IF InfoThrows(req.info)
     THEN /\ sent' = Sent(req, ServerError, FALSE, 0, "off", {}, FALSE, NoOut)
          /\ UNCHANGED inflight
     ELSE /\ BagCardinality(inflight) < NSlots
          /\ inflight' = Suspend(Handler("moderation", req, FALSE, FALSE, "off",
                                         {"moderation"}))
          /\ UNCHANGED sent

\* the on-topic gate after a clean verdict; `semantic` is the classifier's
\* verdict when it has been asked
TopicGate(h, mutated, pat, asked, semantic) ==
  LET req == h.req
      byWords == IF req.round = 1 THEN keywordMatch(req.topic, req.message)
                 ELSE keywordMatch(req.topic, req.message)
                      \/ SCHOOL_CONTEXT_REGEX(req.message)
  IN IF req.topic = "" \/ byWords \/ (asked /\ semantic)
     THEN /\ inflight' = Resume(h) (+) SetToBag({Handler("model", req, mutated,
                                         FALSE, pat, h.calls \cup {"model"})})
          /\ UNCHANGED sent
     ELSE IF req.round # 1 /\ ~asked
     THEN /\ inflight' = Resume(h) (+) SetToBag({Handler("semantic", req, mutated,
                                         FALSE, pat, h.calls \cup {"semantic"})})
          /\ UNCHANGED sent
     ELSE /\ inflight' = Resume(h)
          /\ sent' = Sent(req, OffTopic, mutated, 0, pat, h.calls, FALSE, NoOut)

\* the moderation call returns (a failed call counts as not flagged)
ModerationReturns(h, modFlagged) ==
  /\ UNCHANGED <<client, sessionStore>>
  /\ h \in Handlers /\ h.pc = "moderation"
  /\ UNCHANGED rev
  /\ LET key == studentKey(h.req.info)
         currentCount == MapGet(sensitiveCounts, key)
         flagged == badRegex(h.req.message) \/ modFlagged
     IN IF flagged
        THEN /\ Strike(h.req, key, currentCount, h.calls)
             /\ inflight' = Resume(h)
        ELSE /\ ResetOnClean(key, currentCount)
             /\ TopicGate(h, sensitiveCounts' # sensitiveCounts,
                          Position(key, FALSE),
                          FALSE, FALSE)

\* semanticOnTopicCheck returns: "true", "false", or "error" (lenient)
SemanticReturns(h, answer) ==
  /\ UNCHANGED <<client, sessionStore>>
  /\ h \in Handlers /\ h.pc = "semantic"
  /\ UNCHANGED <<rev, sensitiveCounts, streak, pattern>>
  /\ TopicGate(h, h.mutated, h.pat, TRUE, answer # "false")

\* ------------------------------------------------------------------------
\* The model call returns: parse, score, respond
\* ------------------------------------------------------------------------
ModelReturns(h, text, fields, u1, u2) ==
  /\ UNCHANGED <<client, sessionStore>>
  /\ h \in Handlers /\ h.pc = "model"
  /\ UNCHANGED <<rev, sensitiveCounts, streak, pattern>>
  /\ inflight' = Resume(h)
  /\ LET p == ParseOutput(rev, h.req.difficulty, text, fields)
         out == [text |-> text, parsed |-> p.parsed, data |-> p.data,
                 u1 |-> u1, u2 |-> u2]
         resp == Respond(rev, h.req, p.data, h.hint, u1, u2)
     IN sent' = Sent(h.req, resp, h.mutated, 0, h.pat, h.calls, FALSE, out)

\* the model call throws or rejects: catch (err) answers 500
ModelFails(h) ==
  /\ UNCHANGED <<client, sessionStore>>
  /\ h \in Handlers /\ h.pc = "model"
  /\ UNCHANGED <<rev, sensitiveCounts, streak, pattern>>
  /\ inflight' = Resume(h)
  /\ sent' = Sent(h.req, ServerError, h.mutated, 0, h.pat, h.calls, TRUE, NoOut)

\* ------------------------------------------------------------------------
\* The protocol specification: few inputs, several requests in flight
\* ------------------------------------------------------------------------
Request(i, m, d, r, t) ==
  [info |-> i, message |-> m, difficulty |-> d, round |-> r, topic |-> t]
CleanMessage == Msg(0, 0, 0, 0, 3, TRUE)
Requests ==
  {Request(<<"Ann", "B">>, m, "Normal", 2, KnownTopic) :
     m \in {EmptyMessage, Msg(1, 0, 0, 0, 1, TRUE), CleanMessage}}
  \cup {Request(<<"", "">>, m, "Normal", 2, KnownTopic) :
          m \in {Msg(0, 1, 0, 0, 0, FALSE), CleanMessage}}
  \cup {Request(<<"", "">>, CleanMessage, "Normal", 1, KnownTopic),
        Request(NullInfo, Msg(1, 0, 0, 0, 1, TRUE), "Normal", 2, KnownTopic)}
PlainFields ==
  [reply |-> JStr("reply"), stance |-> JStr("disagree"), outcome |-> JStr("ai"),
   score |-> JNum(6000), concession |-> JNum(2500),
   student_strength |-> JNum(5000)]
Half == D(5000)

Next ==
  \/ \E req \in Requests : Receive(req)
  \/ \E req \in Requests : Receive000(req)
  \/ \E h \in Handlers, f \in BOOLEAN : ModerationReturns(h, f)
  \/ \E h \in Handlers, a \in {"true", "false", "error"} : SemanticReturns(h, a)
  \/ \E h \in Handlers :
        ModelReturns(h, <<"{", "m", "}">>, PlainFields, Half, Half)
  \/ \E h \in Handlers : ModelFails(h)

Spec == Init /\ [][Next]_vars

TypeOK ==
  /\ rev \in Revs
  /\ DOMAIN sensitiveCounts \subseteq AllKeys
  /\ \A k \in DOMAIN sensitiveCounts : sensitiveCounts[k] \in 0..MaxStrikes
  /\ BagCardinality(inflight) <= NSlots

\* ------------------------------------------------------------------------
\* The scoring specification: one clean request waits for the model; the
\* request, the model's output and the random draws range over the grids
\* ------------------------------------------------------------------------
Difficulties ==
  {"Beginner", "Intermediate", "Normal", "Hard", "Extreme", "Legendary"}
ScoreMessages == {Msg(0, 0, 0, 0, p, TRUE) : p \in {0, 1, 4, 5, 8, MaxPlain}}
ScoreRequests ==
  {Request(<<"", "">>, m, d, 1, "") : m \in ScoreMessages, d \in Difficulties}
  \cup {Request(<<"", "">>, CleanMessage, d, r, KnownTopic) :
          d \in Difficulties, r \in 1..MaxRound}
  \cup {Request(<<"", "">>, m, d, 2, t) :
          m \in {Msg(0, 0, 0, 0, 5, TRUE), Msg(0, 0, 1, 0, 4, TRUE)},
          d \in Difficulties, t \in {KnownTopic, UnknownTopic}}

Chars == {"{", "}", "x", "m"}
Texts == UNION {[1..n -> Chars] : n \in 0..MaxText}
\* the text parses to the object whose members are `fields`
UsesFields(text) ==
  slice(text, indexOf(text, "{"), lastIndexOf(text, "}") + 1) = <<"{", "m", "}">>

Fields(reply, stance, outcome, score, concession, strength) ==
  [reply |-> reply, stance |-> stance, outcome |-> outcome, score |-> score,
   concession |-> concession, student_strength |-> strength]
\* the model outputs of the two scoring scenarios
StrongRebuttal ==
  Fields(JStr("reply"), JStr("agree"), JStr("student"), JNum(3000),
         JNum(9000), JNum(9500))
CleanWin ==
  Fields(JStr("reply"), JStr("disagree"), JStr("ai"), JNum(9000),
         JNum(0), JNum(2000))
\* full agreement with a fairly strong student
FullAgreement ==
  Fields(JStr("reply"), JStr("agree"), JStr("student"), JNum(3000),
         JNum(10000), JNum(7000))
ScoreFields ==
  {Fields(JStr("reply"), st, JStr("ai"), JNum(9000), c, ss) :
     st \in {JAbsent, JStr("agree"), JStr("DISAGREE"), JStr("mixed"), JNum(10000)},
     c \in {JAbsent, JStr("high"), JNum(5000), JNum(10000), JNum(-2500)},
     ss \in {JAbsent, JStr("strong"), JNum(0), JNum(7500), JNum(12500)}}
  \cup
  {Fields(r, JStr("agree"), o, sc, JNum(5000), JNum(5000)) :
     r \in {JAbsent, JStr("great reply")},
     o \in {JAbsent, JStr("student")},
     sc \in {JAbsent, JStr("high"), JNum(3000), JNum(15000)}}
  \cup {StrongRebuttal, CleanWin, FullAgreement}
Draws1 == {D(0), D(5000), D(9999)}
Draws2 == {D(500), D(9000)}

\* a clean request gets to the model call: part000 turns a first-round
\* message without a keyword of its topic away
ReachesModel(r, req) ==
  r # "part000" \/ req.topic = "" \/ req.round # 1
  \/ keywordMatch(req.topic, req.message)
\* the calls a handler of a clean first request has made when it asks the model
FirstCalls(r, req) ==
  IF r # "part000" THEN {"model"}
  ELSE IF req.topic = "" \/ keywordMatch(req.topic, req.message)
          \/ (req.round # 1 /\ SCHOOL_CONTEXT_REGEX(req.message))
  THEN {"moderation", "model"}
  ELSE {"moderation", "semantic", "model"}

InitScore ==
  /\ rev \in Revs
  /\ sensitiveCounts = [k \in {} |-> 0]
  /\ \E req \in ScoreRequests :
       /\ ReachesModel(rev, req)
       /\ inflight = SetToBag({Handler("model", req, FALSE,
                     rev # "part000" /\ HintFor(req.topic, req.message),
                     "off", FirstCalls(rev, req))})
  /\ sent = NothingSent
  /\ streak = [k \in AllKeys |-> 0]
  /\ pattern = ""
  /\ client = NotLoaded
  /\ sessionStore = NoSessions

NextScore ==
  \/ \E h \in Handlers, text \in Texts, u1 \in Draws1, u2 \in Draws2 :
       \E fields \in (IF text = <<"{", "m", "}">> THEN ScoreFields
                       ELSE IF UsesFields(text) THEN {StrongRebuttal, CleanWin}
                       ELSE {NoFields}) :
          ModelReturns(h, text, fields, u1, u2)
  \/ \E h \in Handlers : ModelFails(h)

SpecScore == InitScore /\ [][NextScore]_vars

\* every multiplication of the shaping is exact on the grids: the scores
\* are whole multiples of the unit
ScoreIsGrid ==
  sent.any /\ ~sent.resp.score.nan => sent.resp.score.v \in 0..ONE

\* ------------------------------------------------------------------------
\* The debate page: the side-picker client and the welcome-popup client
\* ------------------------------------------------------------------------
MAX_ROUNDS == 3
\* mapDifficultyToBehavior(settings.difficulty).maxWords at "Normal"
maxWords == 90
LongMessage == Msg(0, 0, 0, 0, maxWords + 1, TRUE)
RudeMessage == Msg(1, 0, 0, 0, 1, TRUE)
InputValues == {CleanMessage, RudeMessage, LongMessage}
\* (text.match(/\b[\w']+\b/g) || []).length
currentWordCount(m) == wordCount(m)
\* (studentInput.value || "").trim()
trim(m) == IF wordCount(m) = 0 THEN EmptyMessage ELSE m
\* the data-topic attributes of the topic buttons ("" when it is missing)
TopicButtons == {"", KnownTopic}
Sides == {"pro", "con"}

\* one run of the submit handler suspended at an await: the request it
\* sent, what the answer said, the session it logs to
Turn(id, pc, req, violation, endDebate, nextRound, sess) ==
  [id |-> id, pc |-> pc, req |-> req, violation |-> violation,
   endDebate |-> endDebate, nextRound |-> nextRound, sess |-> sess]

\* refreshCounter(): submitBtn.disabled = over || locked
refreshCounter(c) ==
  [c EXCEPT !.submitDisabled =
     currentWordCount(c.input) > maxWords \/ c.locked]

\* understoodBtn click
Understood ==
  /\ client.page # "none" /\ client.welcome
  /\ client' =
       IF client.page = "sidepicker"
       THEN [client EXCEPT !.welcome = FALSE, !.topicPopup = TRUE,
                           !.confirmDisabled = TRUE,
                           !.done = @ \cup {"ack"}]
       ELSE [client EXCEPT !.welcome = FALSE, !.inputDisabled = FALSE,
                           !.submitDisabled = FALSE,
                           !.done = @ \cup {"ack"}]
  /\ UNCHANGED <<rev, sensitiveCounts, inflight, sent, streak, pattern, sessionStore>>

\* click on a topic button
TopicClick(t) ==
  /\ client.page = "sidepicker" /\ client.topicPopup
  /\ client' = [client EXCEPT !.selectedTopic = t,
                              !.confirmDisabled = (t = ""),
                              !.done = IF t = "" THEN @ ELSE @ \cup {"topic"}]
  /\ UNCHANGED <<rev, sensitiveCounts, inflight, sent, streak, pattern, sessionStore>>

\* (mutant) the side modal opens whether or not a topic is selected
ConfirmTopicMutant ==
  /\ client.page = "sidepicker" /\ client.topicPopup
  /\ client' = [client EXCEPT !.sidePopup = TRUE]
  /\ UNCHANGED <<rev, sensitiveCounts, inflight, sent, streak, pattern, sessionStore>>
\* confirmTopicBtn click
ConfirmTopic ==
  /\ client.page = "sidepicker" /\ client.topicPopup /\ ~client.confirmDisabled
  /\ client' = IF client.selectedTopic = "" THEN client
               ELSE [client EXCEPT !.sidePopup = TRUE]
  /\ UNCHANGED <<rev, sensitiveCounts, inflight, sent, streak, pattern, sessionStore>>

\* click on a side button: afterSideChosen() up to the await in startSession
SideClick(s) ==
  /\ client.page = "sidepicker" /\ client.sidePopup
  /\ client.started < MaxSessions
  /\ client' = refreshCounter(
       [client EXCEPT !.side = s, !.sidePopup = FALSE, !.topicPopup = FALSE,
                      !.inputDisabled = FALSE, !.locked = FALSE,
                      !.starts = @ + 1, !.started = @ + 1,
                      !.done = @ \cup {"side"}])
  /\ sessionStore' = [sessionStore EXCEPT !.starting = @ + 1]
  /\ UNCHANGED <<rev, sensitiveCounts, inflight, sent, streak, pattern>>

\* app.post('/api/session/start'): the session file is written
StartHandled ==
  /\ sessionStore.starting > 0
  /\ sessionStore' = [sessionStore EXCEPT !.starting = @ - 1, !.created = @ + 1]
  /\ UNCHANGED <<rev, sensitiveCounts, inflight, sent, streak, pattern, client>>

\* startSession() resumes: sessionId = data.session_id (the ids are handed
\* out in the order of creation; a failed fetch leaves sessionId alone)
StartReturns(ok) ==
  /\ client.starts > 0
  /\ client.started - client.starts < sessionStore.created
  /\ client' = [client EXCEPT !.starts = @ - 1,
                              !.sessionId = IF ok THEN client.started - client.starts + 1
                                            ELSE @]
  /\ UNCHANGED <<rev, sensitiveCounts, inflight, sent, streak, pattern, sessionStore>>

\* the student edits the input
Type(v) ==
  /\ client.page # "none" /\ ~client.inputDisabled /\ v # client.input
  /\ client' = IF client.page = "sidepicker"
               THEN refreshCounter([client EXCEPT !.input = v])
               ELSE [client EXCEPT !.input = v]
  /\ UNCHANGED <<rev, sensitiveCounts, inflight, sent, streak, pattern, sessionStore>>

\* the request of callDebateAPI(text)
DebateRequest(c, text) ==
  IF c.page = "sidepicker"
  THEN Request(<<"Ann", "B">>, text, "Normal", c.currentRound, c.selectedTopic)
  ELSE Request(<<"", "">>, text, "Normal", c.currentRound, "")

\* submitBtn click, up to the await in callDebateAPI
SubmitClick ==
  /\ client.page # "none" /\ ~client.submitDisabled
  /\ LET text == trim(client.input)
         send == [client EXCEPT
                    !.input = EmptyMessage,
                    !.count = @ + 1,
                    !.turns = @ \cup {Turn(client.count + 1, "debate",
                                           DebateRequest(client, text),
                                           FALSE, FALSE, 0, 0)}]
     IN IF client.finishedReady
        THEN client' = client
        ELSE IF text = EmptyMessage
        THEN client' = client
        ELSE IF client.page = "sidepicker"
        THEN IF client.selectedTopic = ""
             THEN client' = [client EXCEPT !.topicPopup = TRUE]
             ELSE IF client.side = ""
             THEN client' = [client EXCEPT !.sidePopup = TRUE]
             ELSE IF currentWordCount(text) > maxWords
             THEN client' = client
             ELSE /\ client.count < MaxTurns
                  /\ Cardinality(client.turns) < MaxPending
                  /\ client' = refreshCounter(send)
        ELSE IF currentWordCount(text) > maxWords
        THEN client' = client
        ELSE IF client.currentRound > MAX_ROUNDS
        THEN client' = client
        ELSE /\ client.count < MaxTurns
             /\ Cardinality(client.turns) < MaxPending
             /\ client' = send
  /\ UNCHANGED <<rev, sensitiveCounts, inflight, sent, streak, pattern, sessionStore>>

\* the answers the debate endpoint may give to a request: the strikes of the
\* key are shared with the student's other pages, so a violating message
\* gets the warning or the terminal violation; the model call may fail
AnswersTo(req) ==
  {ServerError} \cup
  (IF Violates(rev, req.message)
   THEN {Warning(WarningText(rev, req.message)), StopDebate}
   ELSE {Respond(rev, req, PlainFields, HintFor(req.topic, req.message),
                 Half, Half)})

\* the handler is done
Ends(c, t) == [c EXCEPT !.turns = @ \ {t}]
\* studentInput.disabled = true; finishedReady = true
Finished(c, t) ==
  [Ends(c, t) EXCEPT !.inputDisabled = TRUE, !.finishedReady = TRUE]
\* currentRound = data.nextRound || currentRound + 1; updateRoundDisplay()
NextRound(c, t) ==
  LET n == IF t.nextRound # 0 THEN t.nextRound ELSE c.currentRound + 1
  IN [Ends(c, t) EXCEPT !.currentRound = n, !.shown = n]
\* after logTurn, which has sent n requests: finishSession (nothing to
\* await without a session), in a scored turn the next round
AfterLog(c0, t, n) ==
  LET c == [c0 EXCEPT !.logs = (t.id :> n) @@ @]
  IN IF t.endDebate
  THEN IF c.sessionId = 0 THEN Finished(c, t)
       ELSE [c EXCEPT !.turns = (@ \ {t}) \cup {[t EXCEPT !.pc = "finish"]}]
  ELSE IF t.violation THEN Ends(c, t)
  ELSE NextRound(c, t)
\* await logTurn(...): if (!sessionId) return; else the request is sent
logTurn(c, t) ==
  IF c.sessionId = 0 THEN AfterLog(c, t, 0)
  ELSE [c EXCEPT !.turns = (@ \ {t}) \cup {[t EXCEPT !.pc = "log",
                                                     !.sess = c.sessionId]}]

\* callDebateAPI resumes with the answer `resp`
DebateReturns(t, resp) ==
  /\ t \in client.turns /\ t.pc = "debate"
  /\ resp \in AnswersTo(t.req)
  /\ LET u == [t EXCEPT !.violation = resp.violation,
                        !.endDebate = ("endDebate" \in resp.keys /\ resp.endDebate),
                        !.nextRound = IF "nextRound" \in resp.keys
                                      THEN resp.nextRound ELSE 0]
         r == t.req.round
         c == [client EXCEPT !.turns = (@ \ {t}) \cup {u},
                             !.scored = IF resp.violation THEN @
                                        ELSE IF r \in DOMAIN @
                                        THEN [@ EXCEPT ![r] = @ + 1]
                                        ELSE (r :> 1) @@ @]
     IN IF resp.status # 200
        THEN client' = Ends(client, t)
        ELSE IF client.page = "sidepicker"
        THEN IF resp.violation
             THEN client' = logTurn(c, u)
             ELSE client' = [c EXCEPT !.turns = (@ \ {u}) \cup {[u EXCEPT !.pc = "explain"]}]
        ELSE client' = [c EXCEPT !.turns = (@ \ {u}) \cup {[u EXCEPT !.pc = "explain"]}]
  /\ UNCHANGED <<rev, sensitiveCounts, inflight, sent, streak, pattern, sessionStore>>

\* callExplainAPI resumes (its failure is caught and changes nothing)
ExplainReturns(t) ==
  /\ t \in client.turns /\ t.pc = "explain"
  /\ client' =
       IF client.page = "sidepicker" THEN logTurn(client, t)
       ELSE LET c == NextRound(client, t)
            IN IF c.currentRound > MAX_ROUNDS
               THEN [c EXCEPT !.inputDisabled = TRUE, !.finishedReady = TRUE]
               ELSE c
  /\ UNCHANGED <<rev, sensitiveCounts, inflight, sent, streak, pattern, sessionStore>>

\* app.post('/api/session/logTurn'): data.turns.push(turn)
LogTurnHandled(t) ==
  /\ t \in client.turns /\ t.pc = "log"
  /\ sessionStore' = [sessionStore EXCEPT
                        !.turns = Append(@, [session |-> t.sess, turn |-> t.id])]
  /\ client' = [client EXCEPT !.turns = (@ \ {t}) \cup {[t EXCEPT !.pc = "logged"]}]
  /\ UNCHANGED <<rev, sensitiveCounts, inflight, sent, streak, pattern>>

\* the fetch of logTurn resumes
LogTurnReturns(t) ==
  /\ t \in client.turns /\ t.pc = "logged"
  /\ client' = AfterLog(client, t, 1)
  /\ UNCHANGED <<rev, sensitiveCounts, inflight, sent, streak, pattern, sessionStore>>

\* the fetch of finishSession resumes
FinishReturns(t) ==
  /\ t \in client.turns /\ t.pc = "finish"
  /\ client' = Finished(client, t)
  /\ UNCHANGED <<rev, sensitiveCounts, inflight, sent, streak, pattern, sessionStore>>

\* a fetch of the handler rejects (network error): catch (err)
FetchFails(t) ==
  /\ t \in client.turns /\ t.pc \in {"debate", "log", "logged", "finish"}
  /\ client' = Ends(client, t)
  /\ UNCHANGED <<rev, sensitiveCounts, inflight, sent, streak, pattern, sessionStore>>

\* the settings an earlier visit of the page has left in localStorage
StoredSettings == {<<"sidepicker", "", "">>, <<"sidepicker", KnownTopic, "pro">>,
                   <<"public", "", "">>}

InitClient ==
  /\ rev = "current"
  /\ sensitiveCounts = [k \in {} |-> 0]
  /\ inflight = EmptyBag
  /\ sent = NothingSent
  /\ streak = [k \in AllKeys |-> 0]
  /\ pattern = ""
  /\ \E st \in StoredSettings : client = Loaded(st[1], st[2], st[3], FALSE)
  /\ sessionStore = NoSessions

NextClient ==
  \/ Understood
  \/ \E t \in TopicButtons : TopicClick(t)
  \/ ConfirmTopic
  \/ \E s \in Sides : SideClick(s)
  \/ StartHandled
  \/ \E ok \in BOOLEAN : StartReturns(ok)
  \/ \E v \in InputValues : Type(v)
  \/ SubmitClick
  \/ \E t \in client.turns : \E resp \in AnswersTo(t.req) : DebateReturns(t, resp)
  \/ \E t \in client.turns : ExplainReturns(t)
  \/ \E t \in client.turns : LogTurnHandled(t)
  \/ \E t \in client.turns : LogTurnReturns(t)
  \/ \E t \in client.turns : FinishReturns(t)
  \/ \E t \in client.turns : FetchFails(t)

SpecClient == InitClient /\ [][NextClient]_vars

\* the side-picker page up to the sending of its requests: the events of
\* the student and the start of the session
InitGate == InitClient /\ client.page = "sidepicker"
NextGate ==
  \/ Understood
  \/ \E t \in TopicButtons : TopicClick(t)
  \/ ConfirmTopic
  \/ \E s \in Sides : SideClick(s)
  \/ StartHandled
  \/ \E ok \in BOOLEAN : StartReturns(ok)
  \/ \E v \in InputValues : Type(v)
  \/ SubmitClick
SpecGate == InitGate /\ [][NextGate]_vars

\* ------------------------------------------------------------------------
\* Properties
\* ------------------------------------------------------------------------
\* the terminal violation: endDebate true and allowRetry false
IsTerminal(r) ==
  /\ r.violation
  /\ "endDebate" \in r.keys /\ r.endDebate
  /\ "allowRetry" \in r.keys /\ ~r.allowRetry
\* the violation that may be retried: allowRetry true and no endDebate true
IsRetry(r) ==
  /\ r.violation
  /\ "allowRetry" \in r.keys /\ r.allowRetry
  /\ ~("endDebate" \in r.keys /\ r.endDebate)

\* C1: strike escalation. The n-th message of a run of consecutive
\* violating messages of a key (the run starts with the key's count at 0)
\* is answered with allowRetry:true and no endDebate for n = 1, 2 and with
\* endDebate:true, allowRetry:false for n >= 3 in the current revision; in
\* the earlier revision (threshold 2) for n = 1 and for n >= 2.
C1Theorem ==
  sent.any /\ sent.nth > 0 =>
    /\ rev = "current" =>
         IF sent.nth \in {1, 2} THEN IsRetry(sent.resp) ELSE IsTerminal(sent.resp)
    /\ rev = "rev2" =>
         IF sent.nth = 1 THEN IsRetry(sent.resp) ELSE IsTerminal(sent.resp)
C1Witness ==
  /\ rev = "current" /\ sent.any /\ sent.nth = 4 /\ IsTerminal(sent.resp)
  /\ sent.resp.status = 200

\* C2: reset on clean. The count of every key is the number of violating
\* messages of the key since its last clean message (a clean message sets
\* it to 0 before the turn is scored), and a violating message gets the
\* terminal response iff that number, the message included, has reached the
\* threshold.
C2Theorem ==
  /\ \A k \in AllKeys : MapGet(sensitiveCounts, k) = streak[k]
  /\ sent.any /\ sent.nth > 0 =>
       (IsTerminal(sent.resp) <=> sent.nth >= (IF rev = "current" THEN 3 ELSE 2))
C2Witness ==
  \E h \in Handlers :
    /\ rev = "current" /\ h.pc = "model" /\ h.mutated
    /\ studentKey(h.req.info) \in DOMAIN sensitiveCounts
    /\ sensitiveCounts[studentKey(h.req.info)] = 0

\* C3 as stated: with threshold 2, none of the four responses to violation,
\* clean, violation, violation from a fresh key has endDebate:true or
\* allowRetry:false.
C3Original ==
  rev \in {"rev2", "part000"} /\ sent.any
  /\ sent.pat \in {"V", "VC", "VCV", "VCVV"} =>
    /\ ~("endDebate" \in sent.resp.keys /\ sent.resp.endDebate)
    /\ ~("allowRetry" \in sent.resp.keys /\ ~sent.resp.allowRetry)
\* C3 as amended: with threshold 2, of the four responses to violation,
\* clean, violation, violation from a fresh key the first and the third are
\* violations that may be retried (the clean turn has reset the counter),
\* the second is no sensitive violation, and the fourth is the terminal
\* violation.
C3Theorem ==
  rev \in {"rev2", "part000"} /\ sent.any =>
    /\ sent.pat \in {"V", "VCV"} => IsRetry(sent.resp)
    /\ sent.pat = "VC" => ~(sent.resp.violation /\ sent.resp.category = "sensitive")
    /\ sent.pat = "VCVV" => IsTerminal(sent.resp)
C3Witness ==
  rev = "rev2" /\ sent.any /\ sent.pat = "VCVV" /\ IsTerminal(sent.resp)

\* the response of a scored turn
IsScored(r) == r.status = 200 /\ "score" \in r.keys

\* C4 as stated: the score of every scored turn of the current revision is
\* a number between 0 and 1.
C4Original ==
  rev = "current" /\ sent.any /\ IsScored(sent.resp) =>
    /\ ~sent.resp.score.nan
    /\ 0 <= sent.resp.score.v /\ sent.resp.score.v <= ONE

\* C5 as stated: in the current revision the outcome is "ai" iff
\* score > 0.52, "student" iff score < 0.48, "mixed" iff
\* 0.48 <= score <= 0.52.
C5Original ==
  rev = "current" /\ sent.any /\ IsScored(sent.resp) =>
    LET sc == sent.resp.score
        above == ~sc.nan /\ sc.v > 52 * (ONE \div 100)
        below == ~sc.nan /\ sc.v < 48 * (ONE \div 100)
        within == ~sc.nan /\ sc.v >= 48 * (ONE \div 100) /\ sc.v <= 52 * (ONE \div 100)
    IN /\ sent.resp.outcome = "ai" <=> above
       /\ sent.resp.outcome = "student" <=> below
       /\ sent.resp.outcome = "mixed" <=> within

\* C6: round progression. A scored turn answers round r with round = r and
\* nextRound = r + 1, and endDebate is true iff nextRound exceeds the limit
\* (5 in the current revision, 3 in part000): false below the limit, true
\* from the turn whose round is the limit.
C6Theorem ==
  rev \in {"current", "part000"} /\ sent.any /\ IsScored(sent.resp) =>
    LET limit == IF rev = "current" THEN 5 ELSE 3
        r == sent.req.round
    IN /\ {"round", "nextRound", "endDebate"} \subseteq sent.resp.keys
       /\ sent.resp.round = r
       /\ sent.resp.nextRound = r + 1
       /\ sent.resp.endDebate <=> (sent.resp.nextRound > limit)
       /\ r < limit => ~sent.resp.endDebate
       /\ r = limit => sent.resp.endDebate
C6Witness ==
  /\ rev = "current" /\ sent.any /\ IsScored(sent.resp)
  /\ sent.req.round = 5 /\ sent.resp.nextRound = 6 /\ sent.resp.endDebate

\* C7 as stated: in every scored response hud.meter is round(score * 100),
\* an integer in 0..100.
C7Original ==
  rev = "current" /\ sent.any /\ IsScored(sent.resp) =>
    LET m == sent.resp.hud.meter
        sc == sent.resp.score
    IN /\ ~m.nan /\ m.v \in 0..100
       /\ ~sc.nan
       /\ m.v * (ONE \div 100) <= sc.v + ONE \div 200
       /\ sc.v + ONE \div 200 < (m.v + 1) * (ONE \div 100)

\* C8 as stated: when the model call fails the request is answered with the
\* 500 error and has not changed the strike table.
C8Original ==
  sent.any /\ sent.failed =>
    /\ sent.resp.status = 500
    /\ sent.resp.error = "Failed to get AI response."
    /\ ~sent.mutated

\* the text holds an object that JSON.parse accepts between its first "{"
\* and its last "}"
Parseable(text) ==
  \E i, j \in 1..Len(text) :
    /\ i < j /\ text[i] = "{" /\ text[j] = "}"
    /\ \A k \in 1..(i - 1) : text[k] # "{"
    /\ \A k \in (j + 1)..Len(text) : text[k] # "}"
    /\ j = i + 1 \/ (j = i + 2 /\ text[i + 1] = "m")

\* C9: graceful parse failure. When the model call succeeds and its text
\* holds no parseable object, the response is a success with reply, stance,
\* outcome, score, round, nextRound, endDebate and hud, computed (in the
\* revisions that read them) from stance "mixed", concession 0 and
\* student_strength 0.5; it is never the 500 error.
C9Theorem ==
  sent.any /\ "model" \in sent.calls /\ ~sent.failed /\ ~Parseable(sent.out.text) =>
    /\ sent.resp.status = 200
    /\ {"reply", "stance", "outcome", "score", "round", "nextRound",
        "endDebate", "hud"} \subseteq sent.resp.keys
    /\ sent.resp.stance = JStr("mixed")
    /\ Truthy(sent.resp.reply)
    /\ ~sent.resp.score.nan /\ ~sent.resp.hud.meter.nan
    /\ rev \in {"current", "rev2"} =>
         /\ sent.resp.concession = JNum(0)
         /\ sent.resp.student_strength = JNum(5000)
         /\ sent.resp.score =
              shapeScore(rev,
                 [reply |-> JAbsent, stance |-> JStr("mixed"), outcome |-> JAbsent,
                  score |-> JAbsent, concession |-> JNum(0),
                  student_strength |-> JNum(5000)],
                 sent.req.difficulty, sent.req.message, sent.out.u1, sent.out.u2)
C9Witness ==
  /\ rev = "current" /\ sent.any /\ sent.out.text = <<"}", "x", "{">>
  /\ sent.resp.status = 200 /\ "hud" \in sent.resp.keys
  /\ sent.resp.concession = JNum(0)

\* C10: input validation. The response to a request without a message is
\* 400 {error: 'Missing message'}; the step that sends it changes neither
\* the strike table nor the handlers in flight, and no moderation or model
\* call has been made for it.
C10Theorem ==
  [][(sent' # sent /\ sent'.req.message = EmptyMessage) =>
       /\ sent'.resp.status = 400
       /\ sent'.resp.keys = {"error"}
       /\ sent'.resp.error = "Missing message"
       /\ sent'.calls = {}
       /\ sensitiveCounts' = sensitiveCounts
       /\ inflight' = inflight]_vars
C10Witness ==
  /\ sent.any /\ sent.req.message = EmptyMessage /\ sent.resp.status = 400
  /\ studentKey(sent.req.info) \in DOMAIN sensitiveCounts
  /\ sensitiveCounts[studentKey(sent.req.info)] > 0
  /\ inflight # EmptyBag

\* C11 as stated: a message of the current revision that matches HARD_BAN or
\* LANGUAGE_BAN never reaches the scorer: no language-model call is made for
\* it and its response is a success with violation:true and
\* category:"sensitive" that carries no score, outcome or hud.
C11Original ==
  /\ rev = "current" /\ sent.any
     /\ (HARD_BAN(sent.req.message) \/ LANGUAGE_BAN(sent.req.message)) =>
       /\ sent.calls = {}
       /\ sent.resp.status = 200
       /\ "violation" \in sent.resp.keys /\ sent.resp.violation
       /\ "category" \in sent.resp.keys /\ sent.resp.category = "sensitive"
       /\ sent.resp.keys \cap {"score", "outcome", "hud"} = {}
  /\ rev = "current" =>
       \A h \in Handlers :
         ~(HARD_BAN(h.req.message) \/ LANGUAGE_BAN(h.req.message))

\* the entry of a key in the table, -1 when the key has none
EntryOf(m, k) == IF k \in DOMAIN m THEN m[k] ELSE -1
\* the requests a step works for: those whose handler it suspends or
\* resumes, and the one it answers (a step that leaves the handlers in
\* flight alone has answered a request, possibly as the one before)
Acting ==
  {h.req : h \in BagToSet(inflight (-) inflight') \cup BagToSet(inflight' (-) inflight)}
  \cup (IF sent' # sent \/ inflight' = inflight THEN {sent'.req} ELSE {})

\* C12: frame of the moderation gate. A step changes the strike-table entry
\* of a key only when it works for a request of that key: the entries of
\* all other keys are as before, whether the request is answered with a
\* violation, is clean, or ends in a model failure.
C12Theorem ==
  [][\A k \in AllKeys :
       EntryOf(sensitiveCounts', k) # EntryOf(sensitiveCounts, k) =>
         /\ Acting # {}
         /\ \A r \in Acting : ~InfoThrows(r.info) /\ studentKey(r.info) = k]_vars
C12Witness ==
  /\ rev = "current" /\ sent.any /\ sent.req.info = <<"", "">>
  /\ sent.nth = 1 /\ sent.mutated
  /\ EntryOf(sensitiveCounts, Watched) = 2
  /\ EntryOf(sensitiveCounts, studentKey(<<"", "">>)) = 1
  /\ inflight # EmptyBag

\* C13: atomic strike updates under interleaving. Whatever handlers are in
\* flight, every step that gates a violating message of a key raises the
\* key's count by exactly one over its value before the step (no increment
\* is lost), answers a request of that key, and gives the terminal response
\* iff the raised count has reached the threshold; the only other change of
\* a count is the reset to 0 by a clean message of the key.
C13Theorem ==
  [][\A k \in AllKeys :
       LET before == IF k \in DOMAIN sensitiveCounts THEN sensitiveCounts[k] ELSE 0
           thr == IF rev = "current" THEN 3 ELSE 2
       IN /\ streak'[k] = streak[k] + 1 =>
               /\ EntryOf(sensitiveCounts', k) = before + 1
               /\ ~InfoThrows(sent'.req.info) /\ studentKey(sent'.req.info) = k
               /\ IsTerminal(sent'.resp) <=> before + 1 >= thr
               /\ IsRetry(sent'.resp) <=> before + 1 < thr
          /\ EntryOf(sensitiveCounts', k) # EntryOf(sensitiveCounts, k) =>
               \/ streak'[k] = streak[k] + 1
               \/ EntryOf(sensitiveCounts', k) = 0 /\ streak'[k] = 0]_vars
\* the second of two violating requests of one key is answered while a
\* third one of the key waits for its moderation verdict
C13Witness ==
  /\ rev = "part000" /\ sent.any /\ sent.req.info = <<"Ann", "B">>
  /\ sent.nth = 2 /\ IsTerminal(sent.resp)
  /\ EntryOf(sensitiveCounts, Watched) = 2
  /\ \E h \in Handlers :
       /\ h.pc = "moderation" /\ h.req.info = <<"Ann", "B">>
       /\ badRegex(h.req.message)

\* the message with its topic keywords replaced by other words
WithoutKeywords(m) == [m EXCEPT !.kw = 0, !.plain = @ + m.kw]

\* C14: the topic hint is advisory only (current revision). Every clean
\* message whose model call succeeds is scored, with the hint field iff the
\* message has no keyword of its topic; and the response to a message with
\* a keyword equals, in score, outcome, hud, nextRound and endDebate, the
\* response to the same message with the keywords replaced by other words
\* for the same model output and random draws: only the hint field differs.
C14Theorem ==
  rev = "current" /\ sent.any /\ ~sent.failed /\ ~stanceThrows(sent.out.data) =>
    /\ IsScored(sent.resp)
    /\ "hint" \in sent.resp.keys <=>
         (sent.req.topic # "" /\ ~(sent.req.topic = KnownTopic /\ sent.req.message.kw > 0))
    /\ sent.req.topic = KnownTopic /\ sent.req.message.kw > 0 =>
         LET m2 == WithoutKeywords(sent.req.message)
             other == Scored("current", [sent.req EXCEPT !.message = m2],
                             sent.out.data, HintFor(sent.req.topic, m2),
                             sent.out.u1, sent.out.u2)
         IN /\ other.score = sent.resp.score
            /\ other.outcome = sent.resp.outcome
            /\ other.hud = sent.resp.hud
            /\ other.nextRound = sent.resp.nextRound
            /\ other.endDebate = sent.resp.endDebate
            /\ other.keys = sent.resp.keys \cup {"hint"}
            /\ "hint" \notin sent.resp.keys
C14Witness ==
  /\ rev = "current" /\ sent.any /\ IsScored(sent.resp)
  /\ sent.req.topic = KnownTopic /\ sent.req.message.kw > 0
  /\ sent.req.difficulty = "Hard" /\ "hint" \notin sent.resp.keys
  /\ sent.resp.outcome = "ai"

\* C15 as stated: for a request of the current revision whose topic is
\* null or absent, or is a string that is no key of TOPIC_KEYWORDS, the
\* scored response has no hint field, for every message.
C15Original ==
  rev = "current" /\ sent.any /\ IsScored(sent.resp)
  /\ sent.req.topic # KnownTopic =>
    "hint" \notin sent.resp.keys

\* C16: unknown difficulty falls back to Normal (the endpoints of
\* src/server.js). For a difficulty that is none of Beginner, Intermediate,
\* Normal, Hard, Extreme the answer has the
\* status, score, outcome, hud.meter, hud.leader and hud.label of the answer
\* to the same request with difficulty "Normal" for the same model text and
\* random draws; the difficulty is never what makes a request fail (a 500
\* answer comes from the model's output alone and is the same for Normal).
C16Theorem ==
  rev \in {"current", "rev2"} /\ sent.any /\ "model" \in sent.calls /\ ~sent.failed
  /\ sent.req.difficulty \notin {"Beginner", "Intermediate", "Normal", "Hard", "Extreme"} =>
    LET dataN == IF sent.out.parsed THEN sent.out.data ELSE Fallback(rev, "Normal")
        normal == Respond(rev, [sent.req EXCEPT !.difficulty = "Normal"], dataN,
                          HintFor(sent.req.topic, sent.req.message),
                          sent.out.u1, sent.out.u2)
    IN /\ sent.resp.status = normal.status
       /\ sent.resp.status = 500 =>
            sent.out.parsed /\ sent.out.data.stance.t = "num"
       /\ sent.resp.score = normal.score
       /\ sent.resp.outcome = normal.outcome
       /\ sent.resp.hud.meter = normal.hud.meter
       /\ sent.resp.hud.leader = normal.hud.leader
       /\ sent.resp.hud.label = normal.hud.label
C16Witness ==
  /\ rev = "current" /\ sent.any /\ IsScored(sent.resp)
  /\ sent.req.difficulty = "Legendary" /\ sent.resp.hud.difficulty = "Legendary"
  /\ sent.req.message.plain = MaxPlain
  /\ sent.out.parsed /\ sent.out.data.stance = JStr("DISAGREE")
  /\ sent.resp.outcome = "ai"

\* the turn of the current revision was scored from the model output `f`
\* at the difficulty `d`
ScenarioTurn(f, d) ==
  /\ rev = "current" /\ sent.any /\ IsScored(sent.resp)
  /\ sent.out.parsed /\ sent.out.data = f /\ sent.req.difficulty = d

\* C17 as stated: with stance "agree", concession 0.9, student_strength
\* 0.95 and difficulty Normal the final score is below 0.35 and the outcome
\* is "student" for every jitter draw and every message word count.
C17Original ==
  ScenarioTurn(StrongRebuttal, "Normal") =>
    /\ jsLt(sent.resp.score, D(3500))
    /\ sent.resp.outcome = "student"
\* C17 as amended: the same for every jitter draw and every message of more
\* than 8 words (a shorter message gets the short-answer penalty).
C17Theorem ==
  ScenarioTurn(StrongRebuttal, "Normal")
  /\ sent.req.message.porn + sent.req.message.shit + sent.req.message.kw
     + sent.req.message.school + sent.req.message.plain > 8 =>
    /\ jsLt(sent.resp.score, D(3500))
    /\ sent.resp.outcome = "student"
C17Witness ==
  /\ ScenarioTurn(StrongRebuttal, "Normal")
  /\ sent.req.message.plain = MaxPlain /\ sent.out.u1 = D(9999)
  /\ jsLt(sent.resp.score, D(3500)) /\ sent.resp.outcome = "student"

\* C18: scenario, clean win for the AI. With stance "disagree", concession
\* 0, student_strength 0.2 and difficulty Hard the final score is above 0.6,
\* the outcome is "ai" and hud.leader is "ai", for every jitter draw and
\* every message word count.
C18Theorem ==
  ScenarioTurn(CleanWin, "Hard") =>
    /\ jsGt(sent.resp.score, D(6000))
    /\ sent.resp.outcome = "ai"
    /\ sent.resp.hud.leader = "ai"
C18Witness ==
  /\ ScenarioTurn(CleanWin, "Hard")
  /\ sent.req.message.plain = 5 /\ sent.out.u1 = D(0)
  /\ jsGt(sent.resp.score, D(6000)) /\ jsLt(sent.resp.score, D(6400))
  /\ sent.resp.hud.leader = "ai"

\* C19 as stated: at difficulty Beginner (current revision) every scored
\* turn, its message having passed the input check, has a final score
\* <= 0.35, outcome "student" and hud.leader "student", for every model
\* output and every random draw.
C19Original ==
  rev = "current" /\ sent.any /\ IsScored(sent.resp)
  /\ sent.req.difficulty = "Beginner" =>
    /\ jsLe(sent.resp.score, D(3500))
    /\ sent.resp.outcome = "student"
    /\ sent.resp.hud.leader = "student"

\* C20: in part000 the returned outcome is a function of the final score
\* alone, at every difficulty and for every random draw: "ai" iff
\* score > 0.53, "student" iff score < 0.47, "mixed" otherwise.
C20Theorem ==
  rev = "part000" /\ sent.any /\ IsScored(sent.resp) =>
    LET sc == sent.resp.score
        above == ~sc.nan /\ sc.v > 53 * (ONE \div 100)
        below == ~sc.nan /\ sc.v < 47 * (ONE \div 100)
    IN /\ sent.resp.outcome = "ai" <=> above
       /\ sent.resp.outcome = "student" <=> below
       /\ sent.resp.outcome = "mixed" <=> ~above /\ ~below
\* the random student outcome of an easy tier is taken
C20Witness ==
  /\ rev = "part000" /\ sent.any /\ IsScored(sent.resp)
  /\ sent.req.difficulty = "Intermediate"
  /\ jsLt(sent.out.u2, D(6000)) /\ sent.resp.reply = JStr("praised reply")
  /\ sent.out.parsed /\ sent.out.data.score = JNum(9000)
  /\ jsGt(sent.resp.score, D(4000)) /\ sent.resp.outcome = "student"

\* C21 as stated: in part000 the guardrail bound holds on the returned
\* score: it is >= 0.55 at Hard and >= 0.70 at Extreme, <= 0.42 at Beginner
\* and <= 0.48 at Intermediate, for every raw score and jitter draw.
C21Original ==
  rev = "part000" /\ sent.any /\ IsScored(sent.resp) =>
    LET sc == sent.resp.score
        d == sent.req.difficulty
    IN /\ d = "Hard" => jsGe(sc, D(5500))
       /\ d = "Extreme" => jsGe(sc, D(7000))
       /\ d = "Beginner" => jsLe(sc, D(4200))
       /\ d = "Intermediate" => jsLe(sc, D(4800))

\* C22 as stated: at Beginner (current revision), for a fixed message,
\* student_strength and random draws, the final score is the same for
\* every stance in agree, disagree, mixed and every concession in [0,1].
C22Original ==
  rev = "current" /\ sent.any /\ IsScored(sent.resp)
  /\ sent.req.difficulty = "Beginner" =>
    \A st \in {"agree", "disagree", "mixed"}, c \in {0, 5000, 10000} :
      shapeScore("current",
                 [sent.out.data EXCEPT !.stance = JStr(st), !.concession = JNum(c)],
                 "Beginner", sent.req.message, sent.out.u1, sent.out.u2)
        = sent.resp.score

\* C24 as stated: in every scored response of the current revision
\* hud.leader is "ai" iff outcome is "ai", "student" iff outcome is
\* "student", and "tied" iff outcome is "mixed".
C24Original ==
  rev = "current" /\ sent.any /\ IsScored(sent.resp) =>
    /\ sent.resp.hud.leader = "ai" <=> sent.resp.outcome = "ai"
    /\ sent.resp.hud.leader = "student" <=> sent.resp.outcome = "student"
    /\ sent.resp.hud.leader = "tied" <=> sent.resp.outcome = "mixed"
\* C24 as amended: the leader never contradicts the outcome. Leader "ai"
\* implies outcome "ai", leader "student" implies outcome "student",
\* outcome "mixed" implies leader "tied"; the leader is "tied" with
\* outcome "ai" only at the meter 52 (a score above 0.52 that rounds down to
\* it) and with outcome "student" only at the meter 48 (a score below 0.48
\* that rounds up to it).
C24Theorem ==
  rev = "current" /\ sent.any /\ IsScored(sent.resp) =>
    LET sc == sent.resp.score
        leader == sent.resp.hud.leader
        outcome == sent.resp.outcome
    IN /\ leader = "ai" => outcome = "ai"
       /\ leader = "student" => outcome = "student"
       /\ outcome = "mixed" => leader = "tied"
       /\ leader \in {"ai", "student", "tied"}
       /\ leader = "tied" /\ outcome = "ai" =>
            sent.resp.hud.meter = Num(52) /\ jsGt(sc, D(5200))
       /\ leader = "tied" /\ outcome = "student" =>
            sent.resp.hud.meter = Num(48) /\ jsLt(sc, D(4800))
C24Witness ==
  /\ rev = "current" /\ sent.any /\ IsScored(sent.resp)
  /\ sent.resp.outcome = "ai" /\ sent.resp.hud.leader = "tied"
  /\ sent.resp.hud.meter = Num(52)

\* C25 as stated: in the current revision, at every difficulty other than
\* Beginner, a message of at most 4 words never gets outcome "student" nor
\* hud.leader "student", for every model output and every random draw.
C25Original ==
  (/\ rev = "current" /\ sent.any /\ IsScored(sent.resp)
   /\ sent.req.difficulty # "Beginner"
   /\ wordCount(sent.req.message) <= 4)
  => (/\ sent.resp.outcome # "student"
      /\ sent.resp.hud.leader # "student")
\* C25 as amended: the same for every model output whose student_strength
\* (0.5 when absent, clamped to [0,1]) is below 0.75.
C25Theorem ==
  (/\ rev = "current" /\ sent.any /\ IsScored(sent.resp)
   /\ sent.req.difficulty # "Beginner"
   /\ wordCount(sent.req.message) <= 4
   /\ jsLt(clamp01(Number(Coalesce(sent.out.data.student_strength, JNum(5000)))),
           D(7500)))
  => (/\ sent.resp.outcome # "student"
      /\ sent.resp.hud.leader # "student")
C25Witness ==
  /\ rev = "current" /\ sent.any /\ IsScored(sent.resp)
  /\ sent.req.difficulty = "Intermediate" /\ sent.req.message.plain = 4
  /\ sent.out.parsed /\ sent.out.data = FullAgreement /\ sent.out.u1 = D(0)
  /\ sent.resp.outcome = "mixed"

\* the requests with a message and a readable studentInfo that a step of the
\* current revision receives: it suspends their handler at the model call
\* or answers them at once
Arriving ==
  {r \in {h.req : h \in BagToSet(inflight' (-) inflight)}
          \cup (IF inflight' = inflight /\ sent' # sent THEN {sent'.req} ELSE {}) :
     NonEmpty(r.message) /\ ~InfoThrows(r.info)}

\* C26 as stated: in the current revision, once the terminal violation has
\* been returned for a key, the next request of that key is answered with
\* the terminal violation as well and no handler is suspended for it (no
\* model call, no score).
C26Original ==
  [][(rev = "current" /\ sent.any /\ IsTerminal(sent.resp)) =>
       \A r \in Arriving :
         studentKey(r.info) = studentKey(sent.req.info) =>
           /\ inflight' = inflight
           /\ IsTerminal(sent'.resp)]_vars
\* C26 as amended: while the violating messages of a key since its last
\* clean message have reached the threshold (the terminal violation has been
\* returned and no clean message of the key has arrived since), a violating
\* request of the key is answered with the terminal violation, without any
\* external call; a clean request of the key sets the key's count to 0 and
\* is handed to the model call.
C26Theorem ==
  [][rev = "current" =>
       \A r \in Arriving :
         streak[studentKey(r.info)] >= Threshold(rev) =>
           IF Violates(rev, r.message)
           THEN /\ inflight' = inflight
                /\ sent'.req = r /\ IsTerminal(sent'.resp)
                /\ sent'.calls = {}
                /\ MapGet(sensitiveCounts', studentKey(r.info)) > Threshold(rev)
           ELSE /\ MapGet(sensitiveCounts', studentKey(r.info)) = 0
                /\ \E h \in BagToSet(inflight' (-) inflight) :
                     h.req = r /\ h.pc = "model"]_vars
C26Witness ==
  /\ rev = "current" /\ sent.any /\ IsTerminal(sent.resp) /\ sent.nth = 4
  /\ sent.req.info = <<"Ann", "B">>
  /\ streak[Watched] = 0 /\ EntryOf(sensitiveCounts, Watched) = 0
  /\ \E h \in Handlers : h.req.info = <<"Ann", "B">> /\ h.pc = "model" /\ h.mutated

\* model outputs that differ from `data` in the score and outcome fields
\* only: other numbers, a string or no score, another or no outcome
Reported(data) ==
  {[data EXCEPT !.score = IF @ = JNum(15000) THEN JNum(0) ELSE JNum(15000),
                !.outcome = IF @ = JStr("student") THEN JStr("ai")
                            ELSE JStr("student")],
   [data EXCEPT !.score = IF @ = JAbsent THEN JStr("high") ELSE JAbsent,
                !.outcome = IF @ = JAbsent THEN JStr("mixed") ELSE JAbsent]}

\* C27: the score and outcome fields of the model's output do not matter in
\* the current revision. The answer to a turn has the same status, score,
\* outcome and hud as the answer to the same request with the same draws
\* and a model output that differs in its score and outcome fields only.
C27Theorem ==
  (rev = "current" /\ sent.any /\ "model" \in sent.calls /\ ~sent.failed) =>
    \A data \in Reported(sent.out.data) :
      LET other == Respond(rev, sent.req, data, "hint" \in sent.resp.keys,
                           sent.out.u1, sent.out.u2)
      IN /\ other.status = sent.resp.status
         /\ other.score = sent.resp.score
         /\ other.outcome = sent.resp.outcome
         /\ other.hud = sent.resp.hud
C27Witness ==
  /\ rev = "current" /\ sent.any /\ IsScored(sent.resp)
  /\ sent.out.parsed /\ sent.out.data.score = JNum(3000)
  /\ sent.out.data.outcome = JStr("student")
  /\ sent.resp.outcome = "ai" /\ jsGt(sent.resp.score, D(5200))

\* C23: gating order of the side-picker client. The side modal is visible
\* only after a topic button has been clicked on this page, and a
\* /api/debate request has been sent only after the welcome popup was
\* acknowledged and a topic and a side were chosen on this page; every such
\* request carries a topic.
C23Theorem ==
  client.page = "sidepicker" =>
    /\ client.sidePopup => {"ack", "topic"} \subseteq client.done
    /\ client.count > 0 =>
         /\ client.done = {"ack", "topic", "side"}
         /\ ~client.welcome /\ client.side # ""
    /\ \A t \in client.turns : t.req.topic # "" /\ t.req.message # EmptyMessage
C23Witness ==
  /\ client.page = "sidepicker" /\ client.done = {"ack", "topic", "side"}
  /\ \E t \in client.turns : t.pc = "debate" /\ t.req.topic = KnownTopic

\* C28 as stated: the side-picker client has at most one /api/debate
\* request outstanding, and no two scored turns were sent with the same
\* round number.
C28Original ==
  client.page = "sidepicker" =>
    /\ Cardinality({t \in client.turns : t.pc = "debate"}) <= 1
    /\ \A r \in DOMAIN client.scored : client.scored[r] <= 1

\* C29 as stated: the round shown by updateRoundDisplay is at most
\* MAX_ROUNDS, in the side-picker client and in the welcome-popup client.
C29Original ==
  client.page \in {"sidepicker", "public"} => client.shown <= MAX_ROUNDS

\* C30 as stated: in the side-picker client every turn that got a success
\* response of /api/debate and is past its logTurn call has sent exactly one
\* /api/session/logTurn request.
C30Original ==
  client.page = "sidepicker" =>
    \A id \in DOMAIN client.logs : client.logs[id] = 1

====
